---- MODULE Spec2Model ----
(***************************************************************************)
(* Model of visualization_app.py: a Dash dashboard over a table of bid     *)
(* records.  Four cascading dropdowns (resource type -> generator -> unit  *)
(* -> delivery date), two buttons and one graph.  The callbacks are pure   *)
(* functions of the table and of the component properties; the state of    *)
(* the program is the set of component properties held by the page.        *)
(***************************************************************************)
EXTENDS Integers, Sequences, FiniteSets

VARIABLES
    df,                 \* the table read at import time (a sequence of rows)
    pc,                 \* "layout" before the page's initial callbacks, then "serving"
    resource_type,      \* resource_type_dropdown.value
    generator,          \* generator_dropdown.value
    unit,               \* unit_dropdown.value
    date,               \* date_dropdown.value
    generator_options,  \* generator_dropdown.options
    unit_options,       \* unit_dropdown.options
    date_options,       \* date_dropdown.options
    btn1,               \* btn-graph1.n_clicks
    btn2,               \* btn-graph2.n_clicks
    figure,             \* graph-placeholder.figure
    triggered,          \* dash.callback_context.triggered of the last display_graph call
    last_button,        \* history: id of the button pressed most recently, None if none
    prev_figure         \* history: graph-placeholder.figure before the last callback

vars == <<df, pc, resource_type, generator, unit, date, generator_options,
          unit_options, date_options, btn1, btn2, figure, triggered,
          last_button, prev_figure>>

----------------------------------------------------------------------------
(* Bounds of the model *)

MaxRows == 2        \* rows of the table in the filter datasets
MaxClicks == 1      \* presses of each button
MaxWindow == 2      \* rows of the short hour-window datasets

(* Program constants *)

GridRows == 4
GridCols == 6
NumHours == 24

None == "None"

----------------------------------------------------------------------------
(* The table *)

Row(d, u, g, t, h, s, p) ==
    [DeliveryDate |-> d, ResourceName |-> u, QSE |-> g, ResourceType |-> t,
     HourEnding |-> h, SupplyBidValue |-> s, PriceBidValue |-> p]

\* Rows of the filter datasets: one slice (d1, u1, g1, t1) at two hours, and
\* one row differing from the slice in each single filter attribute.
SampleRows ==
    { Row("d1", "u1", "g1", "t1", 7, 10, 30),
      Row("d1", "u1", "g1", "t1", 2, 20, 40),
      Row("d2", "u1", "g1", "t1", 3, 50, 60),
      Row("d1", "u2", "g1", "t1", 7, 10, 30),
      Row("d1", "u1", "g2", "t1", 7, 10, 30),
      Row("d1", "u1", "g1", "t2", 7, 10, 30) }

SeqsUpTo(S, n) == UNION { [1..k -> S] : k \in 0..n }

Datasets == SeqsUpTo(SampleRows, MaxRows)

\* Datasets of one slice covering the hours: a window of consecutive hours
\* starting anywhere in the day (wrapping past 24), and the whole day.
HourRow(h) == Row("d1", "u1", "g1", "t1", h, h, 100 - h)

Window(start, len) == [i \in 1..len |-> HourRow(((start + i - 2) % NumHours) + 1)]

HourDatasets ==
    { Window(start, len) : start \in 1..NumHours, len \in 1..MaxWindow }
    \cup { Window(start, NumHours) : start \in {1, 13} }

----------------------------------------------------------------------------
(* pandas helpers *)

\* Series.unique(): the distinct values in order of first appearance
RECURSIVE Unique(_)
Unique(s) ==
    IF s = <<>> THEN <<>>
    ELSE LET init == Unique(SubSeq(s, 1, Len(s) - 1))
             x == s[Len(s)]
         IN IF \E i \in 1..Len(init) : init[i] = x THEN init ELSE Append(init, x)

\* the keys of DataFrame.groupby(col): distinct values in ascending order
RECURSIVE Ascending(_)
Ascending(S) ==
    IF S = {} THEN <<>>
    ELSE LET m == CHOOSE x \in S : \A y \in S : x <= y
         IN <<m>> \o Ascending(S \ {m})

Range(s) == { s[i] : i \in 1..Len(s) }

\* a column of a frame
Column(frame, col) == [i \in 1..Len(frame) |-> frame[i][col]]

\* series == value on a text column: elementwise, False everywhere when the
\* value is None
PdEq(cell, value) == value # None /\ cell = value

----------------------------------------------------------------------------
(* Figures *)

\* go.Figure(): no traces, no layout
EmptyFigure == [kind |-> "Figure", data |-> <<>>, layout |-> <<>>]

\* variant: the row computed from the hour itself (off by one)
GridRow_OffByOne(hour) == (hour \div GridCols) + 1

GridRow(hour) == ((hour - 1) \div GridCols) + 1

GridCol(hour) == ((hour - 1) % GridCols) + 1

\* one scatter trace of the per-hour grid
GridTrace(hour, hour_df) ==
    [x |-> Column(hour_df, "SupplyBidValue"), y |-> Column(hour_df, "PriceBidValue"),
     mode |-> "markers", name |-> <<"Hour", hour>>,
     row |-> GridRow(hour), col |-> GridCol(hour)]

\* variant: the guard forgets the date
create_graph1_NoDateGuard(selected_date, selected_unit, selected_generator, selected_resource_type) ==
    IF selected_unit = None \/ selected_generator = None \/ selected_resource_type = None
    THEN EmptyFigure
    ELSE LET filtered_df == SelectSeq(df, LAMBDA r :
                                  PdEq(r.DeliveryDate, selected_date)
                                  /\ PdEq(r.ResourceName, selected_unit)
                                  /\ PdEq(r.QSE, selected_generator)
                                  /\ PdEq(r.ResourceType, selected_resource_type))
             hours == Ascending(Range(Column(filtered_df, "HourEnding")))
         IN [kind |-> "subplots", rows |-> GridRows, cols |-> GridCols,
             subplot_titles |-> [i \in 1..NumHours |-> <<"Hour", i>>],
             data |-> [k \in 1..Len(hours) |->
                          GridTrace(hours[k], SelectSeq(filtered_df, LAMBDA r : r.HourEnding = hours[k]))],
             layout |-> <<"Supply vs Price for", selected_date, selected_unit,
                          selected_generator, selected_resource_type>>]

create_graph1(selected_date, selected_unit, selected_generator, selected_resource_type) ==
    IF selected_date = None \/ selected_unit = None
       \/ selected_generator = None \/ selected_resource_type = None
    THEN EmptyFigure
    ELSE LET filtered_df == SelectSeq(df, LAMBDA r :
                                  PdEq(r.DeliveryDate, selected_date)
                                  /\ PdEq(r.ResourceName, selected_unit)
                                  /\ PdEq(r.QSE, selected_generator)
                                  /\ PdEq(r.ResourceType, selected_resource_type))
             hours == Ascending(Range(Column(filtered_df, "HourEnding")))
         IN [kind |-> "subplots", rows |-> GridRows, cols |-> GridCols,
             subplot_titles |-> [i \in 1..NumHours |-> <<"Hour", i>>],
             data |-> [k \in 1..Len(hours) |->
                          GridTrace(hours[k], SelectSeq(filtered_df, LAMBDA r : r.HourEnding = hours[k]))],
             layout |-> <<"Supply vs Price for", selected_date, selected_unit,
                          selected_generator, selected_resource_type>>]

\* one scatter trace of the combined overlay
OverlayTrace(hour, hour_df) ==
    [x |-> Column(hour_df, "SupplyBidValue"), y |-> Column(hour_df, "PriceBidValue"),
     mode |-> "markers+lines", name |-> <<"Hour", hour>>]

\* variant: the mask forgets the resource type
create_graph2_NoTypeFilter(selected_date, selected_unit, selected_generator, selected_resource_type) ==
    IF selected_date = None \/ selected_unit = None
       \/ selected_generator = None \/ selected_resource_type = None
    THEN EmptyFigure
    ELSE LET filtered_df == SelectSeq(df, LAMBDA r :
                                  PdEq(r.DeliveryDate, selected_date)
                                  /\ PdEq(r.ResourceName, selected_unit)
                                  /\ PdEq(r.QSE, selected_generator))
             hours == Unique(Column(filtered_df, "HourEnding"))
         IN [kind |-> "overlay",
             data |-> [k \in 1..Len(hours) |->
                          OverlayTrace(hours[k], SelectSeq(filtered_df, LAMBDA r : r.HourEnding = hours[k]))],
             layout |-> <<"Supply and Price Bids for", selected_resource_type,
                          selected_generator, selected_unit, selected_date>>]

\* variant: one series per row instead of per distinct hour
create_graph2_NoUnique(selected_date, selected_unit, selected_generator, selected_resource_type) ==
    IF selected_date = None \/ selected_unit = None
       \/ selected_generator = None \/ selected_resource_type = None
    THEN EmptyFigure
    ELSE LET filtered_df == SelectSeq(df, LAMBDA r :
                                  PdEq(r.DeliveryDate, selected_date)
                                  /\ PdEq(r.ResourceName, selected_unit)
                                  /\ PdEq(r.QSE, selected_generator)
                                  /\ PdEq(r.ResourceType, selected_resource_type))
             hours == Column(filtered_df, "HourEnding")
         IN [kind |-> "overlay",
             data |-> [k \in 1..Len(hours) |->
                          OverlayTrace(hours[k], SelectSeq(filtered_df, LAMBDA r : r.HourEnding = hours[k]))],
             layout |-> <<"Supply and Price Bids for", selected_resource_type,
                          selected_generator, selected_unit, selected_date>>]

\* variant: the hours taken in ascending order
create_graph2_Sorted(selected_date, selected_unit, selected_generator, selected_resource_type) ==
    IF selected_date = None \/ selected_unit = None
       \/ selected_generator = None \/ selected_resource_type = None
    THEN EmptyFigure
    ELSE LET filtered_df == SelectSeq(df, LAMBDA r :
                                  PdEq(r.DeliveryDate, selected_date)
                                  /\ PdEq(r.ResourceName, selected_unit)
                                  /\ PdEq(r.QSE, selected_generator)
                                  /\ PdEq(r.ResourceType, selected_resource_type))
             hours == Ascending(Range(Column(filtered_df, "HourEnding")))
         IN [kind |-> "overlay",
             data |-> [k \in 1..Len(hours) |->
                          OverlayTrace(hours[k], SelectSeq(filtered_df, LAMBDA r : r.HourEnding = hours[k]))],
             layout |-> <<"Supply and Price Bids for", selected_resource_type,
                          selected_generator, selected_unit, selected_date>>]

create_graph2(selected_date, selected_unit, selected_generator, selected_resource_type) ==
    IF selected_date = None \/ selected_unit = None
       \/ selected_generator = None \/ selected_resource_type = None
    THEN EmptyFigure
    ELSE LET filtered_df == SelectSeq(df, LAMBDA r :
                                  PdEq(r.DeliveryDate, selected_date)
                                  /\ PdEq(r.ResourceName, selected_unit)
                                  /\ PdEq(r.QSE, selected_generator)
                                  /\ PdEq(r.ResourceType, selected_resource_type))
             hours == Unique(Column(filtered_df, "HourEnding"))
         IN [kind |-> "overlay",
             data |-> [k \in 1..Len(hours) |->
                          OverlayTrace(hours[k], SelectSeq(filtered_df, LAMBDA r : r.HourEnding = hours[k]))],
             layout |-> <<"Supply and Price Bids for", selected_resource_type,
                          selected_generator, selected_unit, selected_date>>]

----------------------------------------------------------------------------
(* Callbacks *)

Options(values) == [i \in 1..Len(values) |-> [label |-> values[i], value |-> values[i]]]

\* options of resource_type_dropdown, computed once in the layout
resource_type_options == Options(Unique(Column(df, "ResourceType")))

update_generator_dropdown(selected_resource_type) ==
    IF selected_resource_type = None THEN <<>>
    ELSE LET filtered_df == SelectSeq(df, LAMBDA r : PdEq(r.ResourceType, selected_resource_type))
             generators == Unique(Column(filtered_df, "QSE"))
         IN Options(generators)

\* variant: the mask forgets the resource type
update_unit_dropdown_NoTypeFilter(selected_generator, selected_resource_type) ==
    IF selected_generator = None THEN <<>>
    ELSE LET filtered_df == SelectSeq(df, LAMBDA r : PdEq(r.QSE, selected_generator))
             units == Unique(Column(filtered_df, "ResourceName"))
         IN Options(units)

update_unit_dropdown(selected_generator, selected_resource_type) ==
    IF selected_generator = None THEN <<>>
    ELSE LET filtered_df == SelectSeq(df, LAMBDA r :
                                  PdEq(r.QSE, selected_generator)
                                  /\ PdEq(r.ResourceType, selected_resource_type))
             units == Unique(Column(filtered_df, "ResourceName"))
         IN Options(units)

\* variant: the mask keeps the unit only
update_date_dropdown_UnitOnly(selected_unit, selected_generator, selected_resource_type) ==
    IF selected_unit = None THEN <<>>
    ELSE LET filtered_df == SelectSeq(df, LAMBDA r : PdEq(r.ResourceName, selected_unit))
             dates == Unique(Column(filtered_df, "DeliveryDate"))
         IN Options(dates)

update_date_dropdown(selected_unit, selected_generator, selected_resource_type) ==
    IF selected_unit = None THEN <<>>
    ELSE LET filtered_df == SelectSeq(df, LAMBDA r :
                                  PdEq(r.ResourceName, selected_unit)
                                  /\ PdEq(r.QSE, selected_generator)
                                  /\ PdEq(r.ResourceType, selected_resource_type))
             dates == Unique(Column(filtered_df, "DeliveryDate"))
         IN Options(dates)

\* variant: the default case draws the per-hour grid
display_graph_DefaultGraph1(b1, b2, selected_date, selected_unit, selected_generator, selected_resource_type, ctx_triggered) ==
    IF ctx_triggered = <<>> THEN EmptyFigure
    ELSE LET button_id == ctx_triggered[1][1]
         IN IF button_id = "btn-graph2" /\ b2 > 0
            THEN create_graph2(selected_date, selected_unit, selected_generator,
                               selected_resource_type)
            ELSE create_graph1(selected_date, selected_unit, selected_generator,
                               selected_resource_type)

\* variant: both buttons draw the per-hour grid
display_graph_SameBuilder(b1, b2, selected_date, selected_unit, selected_generator, selected_resource_type, ctx_triggered) ==
    IF ctx_triggered = <<>> THEN EmptyFigure
    ELSE LET button_id == ctx_triggered[1][1]
         IN IF button_id = "btn-graph1" /\ b1 > 0
            THEN create_graph1(selected_date, selected_unit, selected_generator,
                               selected_resource_type)
            ELSE IF button_id = "btn-graph2" /\ b2 > 0
            THEN create_graph1(selected_date, selected_unit, selected_generator,
                               selected_resource_type)
            ELSE EmptyFigure

\* ctx.triggered is a sequence of prop ids, each <<component id, property>>;
\* prop_id.split('.')[0] is the component id
display_graph(b1, b2, selected_date, selected_unit, selected_generator, selected_resource_type, ctx_triggered) ==
    IF ctx_triggered = <<>> THEN EmptyFigure
    ELSE LET button_id == ctx_triggered[1][1]
         IN IF button_id = "btn-graph1" /\ b1 > 0
            THEN create_graph1(selected_date, selected_unit, selected_generator,
                               selected_resource_type)
            ELSE IF button_id = "btn-graph2" /\ b2 > 0
            THEN create_graph2(selected_date, selected_unit, selected_generator,
                               selected_resource_type)
            ELSE EmptyFigure

----------------------------------------------------------------------------
(* The page *)

\* the values a dropdown lets the user pick: one of its options, or cleared
Choices(options) == { options[i].value : i \in 1..Len(options) } \cup {None}

Layout ==
    /\ pc = "layout"
    /\ resource_type = None /\ generator = None /\ unit = None /\ date = None
    /\ generator_options = <<>> /\ unit_options = <<>> /\ date_options = <<>>
    /\ btn1 = 0 /\ btn2 = 0
    /\ figure = EmptyFigure
    /\ triggered = <<>>
    /\ last_button = None
    /\ prev_figure = EmptyFigure

Init == df \in Datasets /\ Layout

InitHours == df \in HourDatasets /\ Layout

\* the page is opened: every callback runs once, with nothing triggered
PageLoad ==
    /\ pc = "layout"
    /\ pc' = "serving"
    /\ generator_options' = update_generator_dropdown(resource_type)
    /\ unit_options' = update_unit_dropdown(generator, resource_type)
    /\ date_options' = update_date_dropdown(unit, generator, resource_type)
    /\ triggered' = <<>>
    /\ figure' = display_graph(btn1, btn2, date, unit, generator, resource_type, <<>>)
    /\ prev_figure' = figure
    /\ UNCHANGED <<df, resource_type, generator, unit, date, btn1, btn2, last_button>>

SelectResourceType(v) ==
    /\ pc = "serving"
    /\ v \in Choices(resource_type_options) /\ v # resource_type
    /\ resource_type' = v
    /\ generator_options' = update_generator_dropdown(v)
    /\ unit_options' = update_unit_dropdown(generator, v)
    /\ date_options' = update_date_dropdown(unit, generator, v)
    /\ triggered' = << <<"resource_type_dropdown", "value">> >>
    /\ figure' = display_graph(btn1, btn2, date, unit, generator, v, triggered')
    /\ prev_figure' = figure
    /\ UNCHANGED <<df, pc, generator, unit, date, btn1, btn2, last_button>>

SelectGenerator(v) ==
    /\ pc = "serving"
    /\ v \in Choices(generator_options) /\ v # generator
    /\ generator' = v
    /\ unit_options' = update_unit_dropdown(v, resource_type)
    /\ date_options' = update_date_dropdown(unit, v, resource_type)
    /\ triggered' = << <<"generator_dropdown", "value">> >>
    /\ figure' = display_graph(btn1, btn2, date, unit, v, resource_type, triggered')
    /\ prev_figure' = figure
    /\ UNCHANGED <<df, pc, resource_type, unit, date, generator_options, btn1, btn2,
                   last_button>>

SelectUnit(v) ==
    /\ pc = "serving"
    /\ v \in Choices(unit_options) /\ v # unit
    /\ unit' = v
    /\ date_options' = update_date_dropdown(v, generator, resource_type)
    /\ triggered' = << <<"unit_dropdown", "value">> >>
    /\ figure' = display_graph(btn1, btn2, date, v, generator, resource_type, triggered')
    /\ prev_figure' = figure
    /\ UNCHANGED <<df, pc, resource_type, generator, date, generator_options,
                   unit_options, btn1, btn2, last_button>>

SelectDate(v) ==
    /\ pc = "serving"
    /\ v \in Choices(date_options) /\ v # date
    /\ date' = v
    /\ triggered' = << <<"date_dropdown", "value">> >>
    /\ figure' = display_graph(btn1, btn2, v, unit, generator, resource_type, triggered')
    /\ prev_figure' = figure
    /\ UNCHANGED <<df, pc, resource_type, generator, unit, generator_options,
                   unit_options, date_options, btn1, btn2, last_button>>

ClickGraph1 ==
    /\ pc = "serving"
    /\ btn1 < MaxClicks
    /\ btn1' = btn1 + 1
    /\ triggered' = << <<"btn-graph1", "n_clicks">> >>
    /\ figure' = display_graph(btn1', btn2, date, unit, generator, resource_type,
                               triggered')
    /\ prev_figure' = figure
    /\ last_button' = "btn-graph1"
    /\ UNCHANGED <<df, pc, resource_type, generator, unit, date, generator_options,
                   unit_options, date_options, btn2>>

ClickGraph2 ==
    /\ pc = "serving"
    /\ btn2 < MaxClicks
    /\ btn2' = btn2 + 1
    /\ triggered' = << <<"btn-graph2", "n_clicks">> >>
    /\ figure' = display_graph(btn1, btn2', date, unit, generator, resource_type,
                               triggered')
    /\ prev_figure' = figure
    /\ last_button' = "btn-graph2"
    /\ UNCHANGED <<df, pc, resource_type, generator, unit, date, generator_options,
                   unit_options, date_options, btn1>>

Next ==
    \/ PageLoad
    \/ \E v \in Choices(resource_type_options) : SelectResourceType(v)
    \/ \E v \in Choices(generator_options) : SelectGenerator(v)
    \/ \E v \in Choices(unit_options) : SelectUnit(v)
    \/ \E v \in Choices(date_options) : SelectDate(v)
    \/ ClickGraph1
    \/ ClickGraph2

Spec == Init /\ [][Next]_vars

SpecHours == InitHours /\ [][Next]_vars

----------------------------------------------------------------------------
(* Properties *)

AllSet == date # None /\ unit # None /\ generator # None /\ resource_type # None

\* the last display_graph call was triggered by the given button
TriggeredBy(id) == pc = "serving" /\ triggered # <<>> /\ triggered[1][1] = id

\* rows of the table whose four filter attributes equal the current selections
MatchRows ==
    { i \in DOMAIN df : /\ df[i].DeliveryDate = date
                        /\ df[i].ResourceName = unit
                        /\ df[i].QSE = generator
                        /\ df[i].ResourceType = resource_type }

\* the hour a series is named after
HourOf(trace) == trace.name[2]

\* the (hour, supply, price) points of a figure, one per (series, position)
PointsAt(fig, tr) ==
    { kj \in { <<k, j>> : k \in DOMAIN fig.data, j \in 1..Len(df) } :
        /\ kj[2] <= Len(fig.data[kj[1]].x)
        /\ <<HourOf(fig.data[kj[1]]), fig.data[kj[1]].x[kj[2]], fig.data[kj[1]].y[kj[2]]>> = tr }

RowsAt(tr) ==
    { i \in MatchRows : <<df[i].HourEnding, df[i].SupplyBidValue, df[i].PriceBidValue>> = tr }

Triple(r) == <<r.HourEnding, r.SupplyBidValue, r.PriceBidValue>>

FigureTriples(fig) ==
    UNION { { <<HourOf(fig.data[k]), fig.data[k].x[j], fig.data[k].y[j]>> :
                j \in 1..Len(fig.data[k].x) } : k \in DOMAIN fig.data }

\* opts lists each value of S exactly once, label and value alike
ListsExactly(opts, S) ==
    /\ { opts[i].value : i \in 1..Len(opts) } = S
    /\ Len(opts) = Cardinality(S)
    /\ \A i \in 1..Len(opts) : opts[i].label = opts[i].value

\* C1: every filter stage returns an empty option list when any of its
\* upstream selections is absent (the option lists held by the page are the
\* stages' results for the current selections).
C1_AbsentUpstreamGivesNoOptions ==
    pc = "serving" =>
        /\ (resource_type = None => generator_options = <<>>)
        /\ (generator = None \/ resource_type = None => unit_options = <<>>)
        /\ (unit = None \/ generator = None \/ resource_type = None
                => date_options = <<>>)

\* generator and unit present, resource type absent, rows of that generator
\* and unit in the table
C1_Witness ==
    /\ pc = "serving"
    /\ resource_type = None /\ generator # None /\ unit # None
    /\ \E i \in DOMAIN df : df[i].QSE = generator /\ df[i].ResourceName = unit
    /\ unit_options = <<>> /\ date_options = <<>>

\* C2: while neither button has been pressed the displayed chart is the
\* empty chart, whatever the selections.
C2_NoButtonNoChart ==
    (btn1 = 0 /\ btn2 = 0) => figure = EmptyFigure

C2_Witness ==
    /\ pc = "serving" /\ AllSet /\ MatchRows # {}
    /\ btn1 = 0 /\ btn2 = 0
    /\ triggered # <<>>
    /\ figure = EmptyFigure

\* C3 (as claimed): once a button has been pressed the displayed chart is
\* the chart of the most recently pressed button for the current selections.
C3_LastButtonDecidesChart ==
    /\ (last_button = "btn-graph1"
            => figure = create_graph1(date, unit, generator, resource_type))
    /\ (last_button = "btn-graph2"
            => figure = create_graph2(date, unit, generator, resource_type))

\* C4: with the four filters set and one builder's chart displayed, pressing
\* the other button displays the other builder's chart of the same
\* selections, and changes no selection.
C4_SwitchRerenders ==
    [][ /\ (AllSet /\ figure = create_graph1(date, unit, generator, resource_type)
                   /\ btn2' = btn2 + 1)
            => /\ figure' = create_graph2(date, unit, generator, resource_type)
               /\ <<date, unit, generator, resource_type>>'
                    = <<date, unit, generator, resource_type>>
        /\ (AllSet /\ figure = create_graph2(date, unit, generator, resource_type)
                   /\ btn1' = btn1 + 1)
            => /\ figure' = create_graph1(date, unit, generator, resource_type)
               /\ <<date, unit, generator, resource_type>>'
                    = <<date, unit, generator, resource_type>> ]_vars

\* the grid was displayed, button 2 pressed, the overlay of the same
\* selections is displayed
C4_Witness ==
    /\ AllSet /\ MatchRows # {}
    /\ TriggeredBy("btn-graph2")
    /\ prev_figure = create_graph1(date, unit, generator, resource_type)
    /\ prev_figure.kind = "subplots"
    /\ figure = create_graph2(date, unit, generator, resource_type)
    /\ figure.kind = "overlay"

\* the values a selection can take over the table, or absent
Selectable(col) == { df[i][col] : i \in DOMAIN df } \cup {None}

\* C5: both builders return the empty chart when any of the four selections
\* is absent: for every combination of arguments over the table, and for the
\* chart displayed after a button press.
C5_AbsentSelectionGivesEmptyChart ==
    /\ \A d \in Selectable("DeliveryDate"), u \in Selectable("ResourceName"),
          g \in Selectable("QSE"), t \in Selectable("ResourceType") :
            (d = None \/ u = None \/ g = None \/ t = None)
                => /\ create_graph1(d, u, g, t) = EmptyFigure
                   /\ create_graph2(d, u, g, t) = EmptyFigure
    /\ ((TriggeredBy("btn-graph1") \/ TriggeredBy("btn-graph2")) /\ ~AllSet)
            => figure = EmptyFigure

\* a button pressed with only the date absent
C5_Witness ==
    /\ TriggeredBy("btn-graph1")
    /\ date = None /\ unit # None /\ generator # None /\ resource_type # None
    /\ date_options # <<>>
    /\ figure = EmptyFigure

\* C6: with the four selections set, the points of either builder's chart
\* are exactly the (hour, supply, price) triples of the rows matching all
\* four selections, each as many times as it occurs.
C6_PointsAreMatchingRows ==
    ((TriggeredBy("btn-graph1") \/ TriggeredBy("btn-graph2")) /\ AllSet) =>
        /\ \A k \in DOMAIN figure.data : Len(figure.data[k].x) = Len(figure.data[k].y)
        /\ \A tr \in FigureTriples(figure) \cup { Triple(df[i]) : i \in MatchRows } :
              Cardinality(PointsAt(figure, tr)) = Cardinality(RowsAt(tr))

\* a chart drawn from a table holding a matching row and a row that does
\* not match
C6_Witness ==
    /\ TriggeredBy("btn-graph2") /\ AllSet
    /\ MatchRows # {} /\ MatchRows # DOMAIN df
    /\ FigureTriples(figure) # {}

\* C7: the per-hour grid has at most 24 series; the rows of hour h are in the
\* panel at row (h-1) div 6 + 1, column (h-1) mod 6 + 1, inside the 4 by 6
\* grid, distinct hours in distinct panels (hour 7 at row 2, column 1).
C7_GridPanels ==
    (TriggeredBy("btn-graph1") /\ AllSet) =>
        /\ Len(figure.data) <= 24
        /\ figure.rows = 4 /\ figure.cols = 6
        /\ { HourOf(figure.data[k]) : k \in DOMAIN figure.data }
             = { df[i].HourEnding : i \in MatchRows }
        /\ \A k \in DOMAIN figure.data :
              LET t == figure.data[k]
                  h == HourOf(t)
              IN /\ t.row = ((h - 1) \div 6) + 1
                 /\ t.col = ((h - 1) % 6) + 1
                 /\ t.row \in 1..figure.rows /\ t.col \in 1..figure.cols
                 /\ (h = 7 => t.row = 2 /\ t.col = 1)
                 /\ Len(t.x) = Cardinality({ i \in MatchRows : df[i].HourEnding = h })
        /\ \A k, l \in DOMAIN figure.data :
              k # l => <<figure.data[k].row, figure.data[k].col>>
                        # <<figure.data[l].row, figure.data[l].col>>

\* the whole day plotted: 24 panels
C7_Witness ==
    /\ TriggeredBy("btn-graph1") /\ AllSet
    /\ Len(figure.data) = 24
    /\ \E k \in DOMAIN figure.data : HourOf(figure.data[k]) = 7

\* C8: the combined overlay has exactly one series per distinct hour of the
\* matching rows, and none for any other hour.
C8_OneSeriesPerHour ==
    (TriggeredBy("btn-graph2") /\ AllSet) =>
        /\ { HourOf(figure.data[k]) : k \in DOMAIN figure.data }
             = { df[i].HourEnding : i \in MatchRows }
        /\ \A k, l \in DOMAIN figure.data :
              k # l => HourOf(figure.data[k]) # HourOf(figure.data[l])

\* two matching rows of one hour, drawn as one series
C8_Witness ==
    /\ TriggeredBy("btn-graph2") /\ AllSet
    /\ Cardinality(MatchRows) >= 2
    /\ Len(figure.data) = 1

\* C9 (as claimed): the series of the combined overlay are in ascending hour
\* order, whatever the order of the table's rows.
C9_SeriesAscending ==
    (TriggeredBy("btn-graph2") /\ AllSet) =>
        \A k, l \in DOMAIN figure.data :
            k < l => HourOf(figure.data[k]) < HourOf(figure.data[l])

\* index of the first matching row of an hour
FirstRow(h) ==
    CHOOSE i \in MatchRows :
        /\ df[i].HourEnding = h
        /\ \A j \in MatchRows : df[j].HourEnding = h => i <= j

\* C9 (amended): the series of the combined overlay are in the order in
\* which their hours first appear among the matching rows of the table.
C9_SeriesInOrderOfFirstAppearance ==
    (TriggeredBy("btn-graph2") /\ AllSet) =>
        \A k, l \in DOMAIN figure.data :
            k < l => FirstRow(HourOf(figure.data[k])) < FirstRow(HourOf(figure.data[l]))

\* two series, the later hour first
C9_Witness ==
    /\ TriggeredBy("btn-graph2") /\ AllSet
    /\ Len(figure.data) = 2
    /\ HourOf(figure.data[1]) > HourOf(figure.data[2])

\* C10: with its upstream selections present, each filter stage lists exactly
\* the distinct values of the next attribute among the rows matching those
\* selections, each once.
C10_OptionsAreDistinctMatchingValues ==
    pc = "serving" =>
        /\ resource_type # None =>
              ListsExactly(generator_options,
                  { df[i].QSE : i \in { j \in DOMAIN df :
                        df[j].ResourceType = resource_type } })
        /\ (generator # None /\ resource_type # None) =>
              ListsExactly(unit_options,
                  { df[i].ResourceName : i \in { j \in DOMAIN df :
                        /\ df[j].QSE = generator
                        /\ df[j].ResourceType = resource_type } })
        /\ (unit # None /\ generator # None /\ resource_type # None) =>
              ListsExactly(date_options,
                  { df[i].DeliveryDate : i \in { j \in DOMAIN df :
                        /\ df[j].ResourceName = unit
                        /\ df[j].QSE = generator
                        /\ df[j].ResourceType = resource_type } })

\* the three upstream selections present, one date listed, the date of a
\* row that does not match left out
C10_Witness ==
    /\ pc = "serving"
    /\ unit # None /\ generator # None /\ resource_type # None
    /\ Len(generator_options) >= 1 /\ Len(unit_options) >= 1
    /\ Len(date_options) = 1
    /\ \E i \in DOMAIN df : df[i].DeliveryDate # date_options[1].value

====
